---- MODULE Spec2Model ----
(***************************************************************************)
(* Model of teamcity-vcs.py: the export of build configurations / projects *)
(* with their VCS roots, and the CSV driven updates of a TeamCity server.  *)
(* The server is the REST resources the script reads and writes; a request *)
(* either is answered by the server (200, or 404 for an unknown id) or     *)
(* fails in transport (any requests.RequestException, written 500).        *)
(***************************************************************************)
EXTENDS Integers, Sequences, FiniteSets, TLC

VARIABLES
    token,          \* ACCESS_TOKEN is set in the environment
    args,           \* parsed command line: [mode, input_file]
    csv,            \* the input file: [exists, header_ok, rows]
    entries,        \* server: build id -> list of attached VCS root ids
    props,          \* server: root id -> property list of the VCS root
    fault,          \* URLs whose GET fails in transport during an export
    pc,             \* position of the process
    all_projects,   \* export: the project list fetched
    idx,            \* loop index (projects of an export, rows of an update)
    details,        \* export: build_details / project_details (a set of tuples)
    output,         \* export: CSV rows written, in order
    data,           \* update: rows returned by read_*_csv
    success_count,
    failure_count,
    exit_code,      \* -1 while running
    log,            \* every HTTP request issued, in order
    calls           \* one record per call of a mutator, in order

vars == <<token, args, csv, entries, props, fault, pc, all_projects, idx,
          details, output, data, success_count, failure_count, exit_code,
          log, calls>>

----------------------------------------------------------------------------
(* Bounds of the model *)
MaxEntries == 2     \* longest vcs-root-entry list of a build at Init
MaxProps == 2       \* longest property list of a VCS root at Init
MaxRows == 2        \* most data rows of an input CSV
MaxCalls == 2       \* most direct calls of a mutator

(* Python's None, and the fields of the sentinel rows *)
None == "<None>"
SENTINEL_NAME == "No VCS Root"
SENTINEL_ID == "None"

(* The server's projects, builds and roots *)
Projects == <<"P1", "P2">>
ProjectName == [p \in {"P1", "P2"} |-> IF p = "P1" THEN "Proj1" ELSE "Proj2"]
BuildTypesOf == [p \in {"P1", "P2"} |-> IF p = "P1" THEN <<"B1", "B2">> ELSE <<>>]
BuildIds == {"B1", "B2"}
BuildName == [b \in BuildIds |-> IF b = "B1" THEN "Build1" ELSE "Build2"]
RootIds == {"V1", "V2"}
RootName == [r \in RootIds |-> IF r = "V1" THEN "RepoA" ELSE "RepoB"]

Range(s) == {s[i] : i \in 1..Len(s)}
SeqsUpTo(S, n) == UNION {[1..k -> S] : k \in 0..n}

(* Python truthiness of a string or None *)
Truthy(v) == v # None /\ v # ""

----------------------------------------------------------------------------
(* HTTP.  A URL is <<resource kind, id>>; a request is [method, url, body] *)
(* with body None for a GET.                                               *)
Url(kind, id) == <<kind, id>>
ReqBody(method, kind, id, body) == [method |-> method, url |-> Url(kind, id), body |-> body]
Req(method, kind, id) == ReqBody(method, kind, id, None)

Exists(url) ==
    CASE url[1] = "projects"   -> TRUE
      [] url[1] = "buildTypes" -> url[2] \in Range(Projects)
      [] url[1] = "build"      -> url[2] \in BuildIds
      [] url[1] = "entries"    -> url[2] \in BuildIds
      [] url[1] = "root"       -> url[2] \in RootIds
      [] OTHER                 -> FALSE

(* Status of the answer to a GET of url when the URLs in down fail *)
Answer(url, down) ==
    IF url \in down THEN 500 ELSE IF Exists(url) THEN 200 ELSE 404

----------------------------------------------------------------------------
(* Resource accessors, as the export calls them (faults are those of fault) *)

get_all_projects ==
    IF Answer(Url("projects", ""), fault) = 200 THEN Projects ELSE <<>>

get_build_types(project_id) ==
    IF Answer(Url("buildTypes", project_id), fault) = 200
    THEN BuildTypesOf[project_id] ELSE <<>>

get_vcs_root_entries(build_type_id) ==
    LET a == Answer(Url("entries", build_type_id), fault)
    IN  IF a = 404 THEN <<>>
        ELSE IF a # 200 THEN <<>>
        ELSE entries[build_type_id]

(* Value left by the loop over the properties: the last entry of that name *)
PropValue(property_list, name) ==
    LET at == {i \in 1..Len(property_list) : property_list[i].name = name}
    IN  IF at = {} THEN None
        ELSE property_list[CHOOSE i \in at : \A j \in at : j <= i].value

get_vcs_root_details(vcs_root_id) ==
    LET a == Answer(Url("root", vcs_root_id), fault)
    IN  IF a = 404 THEN <<None, None, None>>
        ELSE IF a # 200 THEN <<None, None, None>>
        ELSE <<RootName[vcs_root_id],
               PropValue(props[vcs_root_id], "url"),
               PropValue(props[vcs_root_id], "branch")>>

(* Requests of one pass over the entries of a build: one GET per entry id *)
EntryReqs(vcs_entries) ==
    LET ids == SelectSeq(vcs_entries, Truthy)
    IN  [i \in 1..Len(ids) |-> Req("GET", "root", ids[i])]

BuildReqs(build_id) ==
    <<Req("GET", "entries", build_id)>>
        \o EntryReqs(get_vcs_root_entries(build_id))

RECURSIVE BuildTypesReqs(_)
BuildTypesReqs(build_types) ==
    IF build_types = <<>> THEN <<>>
    ELSE BuildReqs(Head(build_types)) \o BuildTypesReqs(Tail(build_types))

ProjectReqs(project_id) ==
    <<Req("GET", "buildTypes", project_id)>>
        \o BuildTypesReqs(get_build_types(project_id))

----------------------------------------------------------------------------
(* Aggregators: the rows one project adds to the set *)

(* Variants of the loop body, each a slip the code could have made *)
BuildRows_NoSentinel(build_id) ==
    LET vcs_entries == get_vcs_root_entries(build_id)
    IN  {<<build_id, BuildName[build_id], get_vcs_root_details(vcs_id)[1], vcs_id>> :
            vcs_id \in {v \in Range(vcs_entries) :
                          Truthy(v) /\ Truthy(get_vcs_root_details(v)[1])}}

BuildRows_FirstEntryOnly(build_id) ==
    LET vcs_entries == get_vcs_root_entries(build_id)
    IN  IF vcs_entries # <<>>
        THEN {<<build_id, BuildName[build_id], get_vcs_root_details(vcs_id)[1], vcs_id>> :
                vcs_id \in {v \in {Head(vcs_entries)} :
                              Truthy(v) /\ Truthy(get_vcs_root_details(v)[1])}}
        ELSE {<<build_id, BuildName[build_id], SENTINEL_NAME, SENTINEL_ID>>}

(* get_all_build_details, body of the loop over build types *)
BuildRows(build_id) ==
    LET vcs_entries == get_vcs_root_entries(build_id)
    IN  IF vcs_entries # <<>>
        THEN {<<build_id, BuildName[build_id], get_vcs_root_details(vcs_id)[1], vcs_id>> :
                vcs_id \in {v \in Range(vcs_entries) :
                              Truthy(v) /\ Truthy(get_vcs_root_details(v)[1])}}
        ELSE {<<build_id, BuildName[build_id], SENTINEL_NAME, SENTINEL_ID>>}

BuildDetailsOfProject(project_id) ==
    UNION {BuildRows(b) : b \in Range(get_build_types(project_id))}

(* get_all_projects_with_vcs_roots, rows added inside the loops *)
ProjectRootRows(project_id, build_id) ==
    LET vcs_entries == get_vcs_root_entries(build_id)
    IN  {<<project_id, ProjectName[project_id], get_vcs_root_details(vcs_id)[1], vcs_id,
           get_vcs_root_details(vcs_id)[2], get_vcs_root_details(vcs_id)[3]>> :
            vcs_id \in {v \in Range(vcs_entries) :
                          Truthy(v) /\ Truthy(get_vcs_root_details(v)[1])}}

(* Variant: the flag is taken per build type and not per project *)
ProjectDetailsOfProject_FlagPerBuild(project_id) ==
    UNION {IF ProjectRootRows(project_id, b) = {}
           THEN {<<project_id, ProjectName[project_id],
                   SENTINEL_NAME, SENTINEL_ID, "None", "None">>}
           ELSE ProjectRootRows(project_id, b) :
              b \in Range(get_build_types(project_id))}

ProjectDetailsOfProject(project_id) ==
    LET found == UNION {ProjectRootRows(project_id, b) :
                          b \in Range(get_build_types(project_id))}
        vcs_roots_found == found # {}
    IN  IF ~vcs_roots_found
        THEN {<<project_id, ProjectName[project_id],
                SENTINEL_NAME, SENTINEL_ID, "None", "None">>}
        ELSE found

----------------------------------------------------------------------------
(* sorted(): Python orders tuples field by field and strings by code point. *)
(* StrOrder lists the strings of the model in that order.                   *)
StrOrder ==
    <<"", "B1", "B2", "BX", "Build1", "Build2", "No VCS Root", "None", "P1", "P2",
      "Proj1", "Proj2", "RepoA", "RepoB", "V1", "V2", "VX", "main", "new", "old", "u1">>

StrRank(v) ==
    IF v \in Range(StrOrder) THEN CHOOSE i \in 1..Len(StrOrder) : StrOrder[i] = v ELSE 0

RECURSIVE TupleLess(_, _)
TupleLess(a, b) ==
    IF a = <<>> THEN b # <<>>
    ELSE IF b = <<>> THEN FALSE
    ELSE IF Head(a) = Head(b) THEN TupleLess(Tail(a), Tail(b))
    ELSE StrRank(Head(a)) < StrRank(Head(b))

RECURSIVE sorted(_)
sorted(S) ==
    IF S = {} THEN <<>>
    ELSE LET m == CHOOSE x \in S : \A y \in S \ {x} : TupleLess(x, y)
         IN  <<m>> \o sorted(S \ {m})

(* csv.writer writes None as the empty string *)
CsvCell(v) == IF v = None THEN "" ELSE v

(* Variant: the tuple written in its own order, name before id *)
BuildCsvRow_TupleOrder(t) == <<t[1], t[2], t[3], t[4]>>

(* main: the row written for a tuple, VCS Root ID before VCS Root Name *)
BuildCsvRow(t) == <<t[1], t[2], t[4], t[3]>>
ProjectCsvRow(t) == <<t[1], t[2], t[4], t[3], CsvCell(t[5]), CsvCell(t[6])>>

----------------------------------------------------------------------------
(* The process *)

UpdateMode == args.mode \in {"update_projects", "update_builds"}

(* Module level code: the token is required *)
Startup ==
    /\ pc = "start"
    /\ IF ~token
       THEN pc' = "exit" /\ exit_code' = 1
       ELSE pc' = "main" /\ UNCHANGED exit_code
    /\ UNCHANGED <<token, args, csv, entries, props, fault, all_projects, idx,
                   details, output, data, success_count, failure_count, log, calls>>

(* Variant: the dispatch without the check of --input-file *)
ParseArgs_NoInputCheck ==
    /\ pc = "main"
    /\ pc' = IF UpdateMode THEN "update" ELSE "export"
    /\ UNCHANGED <<token, args, csv, entries, props, fault, all_projects, idx,
                   details, output, data, success_count, failure_count, exit_code,
                   log, calls>>

(* main: argument validation and dispatch *)
ParseArgs ==
    /\ pc = "main"
    /\ IF UpdateMode /\ ~Truthy(args.input_file)
       THEN pc' = "exit" /\ exit_code' = 1
       ELSE /\ pc' = IF UpdateMode THEN "update" ELSE "export"
            /\ UNCHANGED exit_code
    /\ UNCHANGED <<token, args, csv, entries, props, fault, all_projects, idx,
                   details, output, data, success_count, failure_count, log, calls>>

(* get_all_build_details / get_all_projects_with_vcs_roots: the project list *)
ExportBegin ==
    /\ pc = "export"
    /\ all_projects' = get_all_projects
    /\ log' = Append(log, Req("GET", "projects", ""))
    /\ details' = {}
    /\ idx' = 1
    /\ pc' = "export_loop"
    /\ UNCHANGED <<token, args, csv, entries, props, fault, output, data,
                   success_count, failure_count, exit_code, calls>>

(* One turn of the loop over the projects *)
ExportProject ==
    /\ pc = "export_loop"
    /\ idx <= Len(all_projects)
    /\ LET project_id == all_projects[idx]
       IN  /\ details' = details \cup
                 (IF args.mode = "projects"
                  THEN ProjectDetailsOfProject(project_id)
                  ELSE BuildDetailsOfProject(project_id))
           /\ log' = log \o ProjectReqs(project_id)
    /\ idx' = idx + 1
    /\ UNCHANGED <<token, args, csv, entries, props, fault, pc, all_projects,
                   output, data, success_count, failure_count, exit_code, calls>>

(* main: the sorted rows are written and the process ends *)
ExportWrite ==
    /\ pc = "export_loop"
    /\ idx > Len(all_projects)
    /\ output' = LET rows == sorted(details)
                 IN  [i \in 1..Len(rows) |->
                        IF args.mode = "projects" THEN ProjectCsvRow(rows[i])
                        ELSE BuildCsvRow(rows[i])]
    /\ pc' = "exit"
    /\ exit_code' = 0
    /\ UNCHANGED <<token, args, csv, entries, props, fault, all_projects, idx,
                   details, data, success_count, failure_count, log, calls>>

----------------------------------------------------------------------------
(* Export runs: any attachment lists, any set of failing GETs *)
MaxFaults == 2

GetUrls ==
    {Url("projects", "")} \cup {Url("buildTypes", p) : p \in Range(Projects)}
        \cup {Url("entries", b) : b \in BuildIds} \cup {Url("root", r) : r \in RootIds}

ExportProps ==
    [r \in RootIds |->
        IF r = "V1" THEN <<[name |-> "url", value |-> "u1"],
                           [name |-> "branch", value |-> "main"]>>
        ELSE <<>>]

NoCsv == [exists |-> FALSE, header_ok |-> FALSE, rows |-> <<>>]

InitExport ==
    /\ token = TRUE
    /\ args \in [mode : {"builds", "projects"}, input_file : {None}]
    /\ csv = NoCsv
    /\ entries \in [BuildIds -> SeqsUpTo(RootIds \cup {None}, MaxEntries)]
    /\ props = ExportProps
    /\ fault \in {f \in SUBSET GetUrls : Cardinality(f) <= MaxFaults}
    /\ pc = "start"
    /\ all_projects = <<>>
    /\ idx = 0
    /\ details = {}
    /\ output = <<>>
    /\ data = <<>>
    /\ success_count = 0
    /\ failure_count = 0
    /\ exit_code = -1
    /\ log = <<>>
    /\ calls = <<>>

NextExport ==
    \/ Startup
    \/ ParseArgs
    \/ ExportBegin
    \/ ExportProject
    \/ ExportWrite

SpecExport == InitExport /\ [][NextExport]_vars

----------------------------------------------------------------------------
(* Claims about the exports, stated on the server's data and the faults.   *)

ExportDone(mode) == pc = "exit" /\ exit_code = 0 /\ args.mode = mode

(* The build types the run enumerates: those of a listed project whose     *)
(* build type list was fetched.                                            *)
ListedProjects ==
    IF Url("projects", "") \in fault THEN {} ELSE Range(Projects)

ListedBuilds(p) ==
    IF Url("buildTypes", p) \in fault THEN {} ELSE Range(BuildTypesOf[p])

AllListedBuilds == UNION {ListedBuilds(p) : p \in ListedProjects}

(* The entry list of a build as the run sees it, and the roots it resolves to *)
FetchedEntries(b) == IF Url("entries", b) \in fault THEN <<>> ELSE entries[b]

ResolvedRoots(b) ==
    {r \in Range(FetchedEntries(b)) : r \in RootIds /\ Url("root", r) \notin fault}

RowsOfBuild(b) == {t \in details : t[1] = b}
OutputRowsOfBuild(b) == {i \in 1..Len(output) : output[i][1] = b}

(* C1: in the builds export every enumerated build type whose VCS root     *)
(* entry list is empty has exactly one row, the sentinel                   *)
(* (buildId, buildName, "No VCS Root", "None").                            *)
C1_SentinelForEmptyBuild ==
    ExportDone("builds") =>
        \A b \in AllListedBuilds :
            entries[b] = <<>> =>
                /\ RowsOfBuild(b) = {<<b, BuildName[b], "No VCS Root", "None">>}
                /\ Cardinality(OutputRowsOfBuild(b)) = 1
                /\ \A i \in OutputRowsOfBuild(b) :
                       output[i] = <<b, BuildName[b], "None", "No VCS Root">>

C1_Witness ==
    /\ ExportDone("builds")
    /\ \E b \in AllListedBuilds :
          /\ entries[b] = <<>>
          /\ <<b, BuildName[b], "No VCS Root", "None">> \in details
    /\ \E b \in AllListedBuilds : entries[b] # <<>>

(* C2: in the builds export every enumerated build type whose fetched      *)
(* entries resolve to N >= 1 distinct VCS roots has exactly N rows, one    *)
(* per root with that root's id and name, and no sentinel row.             *)
C2_OneRowPerResolvedRoot ==
    ExportDone("builds") =>
        \A b \in AllListedBuilds :
            Cardinality(ResolvedRoots(b)) >= 1 =>
                /\ RowsOfBuild(b) =
                       {<<b, BuildName[b], RootName[r], r>> : r \in ResolvedRoots(b)}
                /\ Cardinality(RowsOfBuild(b)) = Cardinality(ResolvedRoots(b))
                /\ Cardinality(OutputRowsOfBuild(b)) = Cardinality(ResolvedRoots(b))
                /\ \A r \in ResolvedRoots(b) :
                       \E i \in OutputRowsOfBuild(b) :
                           output[i] = <<b, BuildName[b], r, RootName[r]>>
                /\ \A t \in RowsOfBuild(b) : t[4] # "None" /\ t[3] # "No VCS Root"

C2_Witness ==
    /\ ExportDone("builds")
    /\ \E b \in AllListedBuilds :
          /\ Cardinality(ResolvedRoots(b)) = 2
          /\ Cardinality(RowsOfBuild(b)) = 2
    /\ \E b \in AllListedBuilds :
          /\ Len(entries[b]) = 2
          /\ Cardinality(ResolvedRoots(b)) = 1
          /\ Cardinality(RowsOfBuild(b)) = 1

(* Projects export *)
ProjectSentinel(p) ==
    <<p, ProjectName[p], "No VCS Root", "None", "None", "None">>

RowsOfProject(p) == {t \in details : t[1] = p}

ProjectResolvedRoots(p) == UNION {ResolvedRoots(b) : b \in ListedBuilds(p)}

(* C3 as stated: a listed project has the sentinel row exactly when none   *)
(* of its build types has any VCS root entry.                              *)
C3_SentinelIffNoEntries ==
    ExportDone("projects") =>
        \A p \in ListedProjects :
            (ProjectSentinel(p) \in details)
                <=> (\A b \in ListedBuilds(p) : FetchedEntries(b) = <<>>)

(* C3 amended: a listed project has the sentinel row, and then only that   *)
(* row, exactly when no entry of any of its build types resolves to a      *)
(* named VCS root; once one entry resolves the project has one row per     *)
(* distinct resolved root and no sentinel, whatever its other build types  *)
(* have.                                                                   *)
C3_SentinelIffNothingResolved ==
    ExportDone("projects") =>
        \A p \in ListedProjects :
            /\ (ProjectSentinel(p) \in details) <=> (ProjectResolvedRoots(p) = {})
            /\ ProjectResolvedRoots(p) = {} => RowsOfProject(p) = {ProjectSentinel(p)}
            /\ ProjectResolvedRoots(p) # {} =>
                   /\ {t[4] : t \in RowsOfProject(p)} = ProjectResolvedRoots(p)
                   /\ Cardinality(RowsOfProject(p)) = Cardinality(ProjectResolvedRoots(p))
                   /\ \A t \in RowsOfProject(p) : t[3] = RootName[t[4]]

C3_Witness ==
    /\ ExportDone("projects")
    /\ \E p \in ListedProjects :
          /\ \E b \in ListedBuilds(p) : ResolvedRoots(b) # {}
          /\ \E b \in ListedBuilds(p) : FetchedEntries(b) = <<>>
          /\ ProjectSentinel(p) \notin details
    /\ \E p \in ListedProjects : ProjectSentinel(p) \in details

----------------------------------------------------------------------------
(* Mutators.  A call issues its requests in order; failAt is the position  *)
(* of the request of the call that fails in transport (0: none fails).     *)
(* Each operator yields [ok, reqs, entries, props]: the value returned,    *)
(* the requests issued and the server's data after the call.               *)

(* The server's handling of a write it answers *)
ServerEntries(req, ents) ==
    IF req.url[1] = "entries" /\ req.method = "POST"
    THEN [ents EXCEPT ![req.url[2]] = Append(@, req.body)]
    ELSE IF req.url[1] = "entries" /\ req.method = "PUT"
    THEN [ents EXCEPT ![req.url[2]] = <<req.body>>]
    ELSE ents

ServerProps(req, prs) ==
    IF req.url[1] = "properties" /\ req.method = "PUT"
    THEN [prs EXCEPT ![req.url[2]] = req.body]
    ELSE prs

Outcome(ok, reqs, ents, prs) ==
    [ok |-> ok, reqs |-> reqs, entries |-> ents, props |-> prs]

(* Status of the k-th request of a call *)
CallAnswer(url, k, failAt) == IF k = failAt THEN 500 ELSE IF Exists(url) THEN 200 ELSE 404

(* The attachment call of assign_vcs_root_to_build *)
AttachRequest_Put(build_id, vcs_root_id) ==
    ReqBody("PUT", "entries", build_id, vcs_root_id)

AttachRequest(build_id, vcs_root_id) ==
    ReqBody("POST", "entries", build_id, vcs_root_id)

assign_vcs_root_to_build_NoAttachedCheck(build_id, vcs_root_id, failAt, ents, prs) ==
    LET g1 == Req("GET", "build", build_id)
        g2 == Req("GET", "root", vcs_root_id)
        g3 == Req("GET", "entries", build_id)
        p4 == AttachRequest(build_id, vcs_root_id)
    IN  IF CallAnswer(g1.url, 1, failAt) # 200 THEN Outcome(FALSE, <<g1>>, ents, prs)
        ELSE IF CallAnswer(g2.url, 2, failAt) # 200 THEN Outcome(FALSE, <<g1, g2>>, ents, prs)
        ELSE IF CallAnswer(g3.url, 3, failAt) # 200 THEN Outcome(FALSE, <<g1, g2, g3>>, ents, prs)
        ELSE IF failAt = 4 THEN Outcome(FALSE, <<g1, g2, g3, p4>>, ents, prs)
        ELSE Outcome(TRUE, <<g1, g2, g3, p4>>, ServerEntries(p4, ents), prs)

assign_vcs_root_to_build_NoRootCheck(build_id, vcs_root_id, failAt, ents, prs) ==
    LET g1 == Req("GET", "build", build_id)
        g3 == Req("GET", "entries", build_id)
        p4 == AttachRequest(build_id, vcs_root_id)
    IN  IF CallAnswer(g1.url, 1, failAt) # 200 THEN Outcome(FALSE, <<g1>>, ents, prs)
        ELSE IF CallAnswer(g3.url, 2, failAt) # 200 THEN Outcome(FALSE, <<g1, g3>>, ents, prs)
        ELSE IF vcs_root_id \in Range(ents[build_id]) THEN Outcome(TRUE, <<g1, g3>>, ents, prs)
        ELSE IF failAt = 3 THEN Outcome(FALSE, <<g1, g3, p4>>, ents, prs)
        ELSE Outcome(TRUE, <<g1, g3, p4>>, ServerEntries(p4, ents), prs)

assign_vcs_root_to_build(build_id, vcs_root_id, failAt, ents, prs) ==
    LET g1 == Req("GET", "build", build_id)
        g2 == Req("GET", "root", vcs_root_id)
        g3 == Req("GET", "entries", build_id)
        p4 == AttachRequest(build_id, vcs_root_id)
    IN  IF CallAnswer(g1.url, 1, failAt) = 404 THEN Outcome(FALSE, <<g1>>, ents, prs)
        ELSE IF CallAnswer(g1.url, 1, failAt) # 200 THEN Outcome(FALSE, <<g1>>, ents, prs)
        ELSE IF CallAnswer(g2.url, 2, failAt) = 404 THEN Outcome(FALSE, <<g1, g2>>, ents, prs)
        ELSE IF CallAnswer(g2.url, 2, failAt) # 200 THEN Outcome(FALSE, <<g1, g2>>, ents, prs)
        ELSE IF CallAnswer(g3.url, 3, failAt) # 200 THEN Outcome(FALSE, <<g1, g2, g3>>, ents, prs)
        ELSE IF vcs_root_id \in Range(ents[build_id]) THEN Outcome(TRUE, <<g1, g2, g3>>, ents, prs)
        ELSE IF failAt = 4 THEN Outcome(FALSE, <<g1, g2, g3, p4>>, ents, prs)
        ELSE Outcome(TRUE, <<g1, g2, g3, p4>>, ServerEntries(p4, ents), prs)

(* update_vcs_root_properties: the list after the loop and the appends *)
Prop(name, value) == [name |-> name, value |-> value]

UpdatedList_ReplaceAll(property_list, fetch_url, default_branch) ==
    (IF fetch_url # None THEN <<Prop("url", fetch_url)>> ELSE <<>>)
        \o (IF default_branch # None THEN <<Prop("branch", default_branch)>> ELSE <<>>)

UrlFound(property_list, fetch_url) ==
    fetch_url # None /\ \E i \in 1..Len(property_list) : property_list[i].name = "url"

BranchFound(property_list, default_branch) ==
    default_branch # None
        /\ \E i \in 1..Len(property_list) : property_list[i].name = "branch"

UpdatedList(property_list, fetch_url, default_branch) ==
    LET existing == [i \in 1..Len(property_list) |->
                       IF property_list[i].name = "url" /\ fetch_url # None
                       THEN Prop("url", fetch_url)
                       ELSE IF property_list[i].name = "branch" /\ default_branch # None
                       THEN Prop("branch", default_branch)
                       ELSE property_list[i]]
    IN  existing
            \o (IF fetch_url # None /\ ~UrlFound(property_list, fetch_url)
                THEN <<Prop("url", fetch_url)>> ELSE <<>>)
            \o (IF default_branch # None /\ ~BranchFound(property_list, default_branch)
                THEN <<Prop("branch", default_branch)>> ELSE <<>>)

(* The flag updated after the loop and the appends *)
Updated(property_list, fetch_url, default_branch) ==
    \/ UrlFound(property_list, fetch_url)
    \/ BranchFound(property_list, default_branch)
    \/ fetch_url # None /\ ~UrlFound(property_list, fetch_url)
    \/ default_branch # None /\ ~BranchFound(property_list, default_branch)

update_vcs_root_properties_NoEarlyReturn(vcs_root_id, fetch_url, default_branch, failAt, ents, prs) ==
    LET g1 == Req("GET", "root", vcs_root_id)
        property_list == UpdatedList(prs[vcs_root_id], fetch_url, default_branch)
        p2 == ReqBody("PUT", "properties", vcs_root_id, property_list)
    IN  IF CallAnswer(g1.url, 1, failAt) # 200 THEN Outcome(FALSE, <<g1>>, ents, prs)
        ELSE IF failAt = 2 THEN Outcome(FALSE, <<g1, p2>>, ents, prs)
        ELSE Outcome(TRUE, <<g1, p2>>, ents, ServerProps(p2, prs))

update_vcs_root_properties(vcs_root_id, fetch_url, default_branch, failAt, ents, prs) ==
    LET g1 == Req("GET", "root", vcs_root_id)
        property_list == UpdatedList(prs[vcs_root_id], fetch_url, default_branch)
        updated == Updated(prs[vcs_root_id], fetch_url, default_branch)
        p2 == ReqBody("PUT", "properties", vcs_root_id, property_list)
    IN  IF fetch_url = None /\ default_branch = None THEN Outcome(TRUE, <<>>, ents, prs)
        ELSE IF CallAnswer(g1.url, 1, failAt) = 404 THEN Outcome(FALSE, <<g1>>, ents, prs)
        ELSE IF CallAnswer(g1.url, 1, failAt) # 200 THEN Outcome(FALSE, <<g1>>, ents, prs)
        ELSE IF ~updated THEN Outcome(TRUE, <<g1>>, ents, prs)
        ELSE IF failAt = 2 THEN Outcome(FALSE, <<g1, p2>>, ents, prs)
        ELSE Outcome(TRUE, <<g1, p2>>, ents, ServerProps(p2, prs))

----------------------------------------------------------------------------
(* Direct calls of the mutators.  Every call leaves a record in calls.     *)

CallRecord(fn, a, failAt, o) ==
    [fn |-> fn, args |-> a, failAt |-> failAt,
     entries_before |-> entries, props_before |-> props,
     reqs |-> o.reqs, ok |-> o.ok]

ArgBuilds == BuildIds \cup {"BX"}
ArgRoots == RootIds \cup {"VX"}
ArgValues == {None, "", "new"}

CallAssign ==
    /\ pc = "api_assign"
    /\ Len(calls) < MaxCalls
    /\ \E b \in ArgBuilds, r \in ArgRoots, f \in 0..4 :
          LET o == assign_vcs_root_to_build(b, r, f, entries, props)
          IN  /\ f <= Len(o.reqs)
              /\ entries' = o.entries
              /\ props' = o.props
              /\ log' = log \o o.reqs
              /\ calls' = Append(calls, CallRecord("assign", <<b, r>>, f, o))
    /\ UNCHANGED <<token, args, csv, fault, pc, all_projects, idx, details, output,
                   data, success_count, failure_count, exit_code>>

CallUpdate ==
    /\ pc = "api_update"
    /\ \E r \in ArgRoots, u \in ArgValues, d \in ArgValues, f \in 0..2 :
          LET o == update_vcs_root_properties(r, u, d, f, entries, props)
          IN  /\ f <= Len(o.reqs)
              /\ entries' = o.entries
              /\ props' = o.props
              /\ log' = log \o o.reqs
              /\ calls' = Append(calls, CallRecord("update", <<r, u, d>>, f, o))
    /\ pc' = "returned"
    /\ UNCHANGED <<token, args, csv, fault, all_projects, idx, details, output,
                   data, success_count, failure_count, exit_code>>

PropNames == {"url", "branch", "user"}
PropValues == {"old", "new"}
PropLists == SeqsUpTo([name : PropNames, value : PropValues], MaxProps)

InitApi ==
    /\ token = TRUE
    /\ args = [mode |-> "builds", input_file |-> None]
    /\ csv = NoCsv
    /\ fault = {}
    /\ all_projects = <<>>
    /\ idx = 0
    /\ details = {}
    /\ output = <<>>
    /\ data = <<>>
    /\ success_count = 0
    /\ failure_count = 0
    /\ exit_code = -1
    /\ log = <<>>
    /\ calls = <<>>

InitAssign ==
    /\ InitApi
    /\ pc = "api_assign"
    /\ entries \in [BuildIds -> {<<>>, <<"V1">>, <<"V2">>}]
    /\ props = ExportProps

NextAssign == CallAssign

SpecAssign == InitAssign /\ [][NextAssign]_vars

InitProps ==
    /\ InitApi
    /\ pc = "api_update"
    /\ entries = [b \in BuildIds |-> <<>>]
    /\ props \in {[r \in RootIds |-> IF r = "V1" THEN l ELSE <<Prop("user", "old")>>] :
                    l \in PropLists}

NextProps == CallUpdate

SpecProps == InitProps /\ [][NextProps]_vars

----------------------------------------------------------------------------
(* Claims about assign_vcs_root_to_build *)

Posts(reqs) == {i \in 1..Len(reqs) : reqs[i].method = "POST" /\ reqs[i].url[1] = "entries"}
Puts(reqs) == {i \in 1..Len(reqs) : reqs[i].method = "PUT"}

(* Call i attached its root: it was not attached before, and the POST was  *)
(* answered.                                                               *)
Attached(i) ==
    /\ calls[i].fn = "assign"
    /\ calls[i].args[1] \in BuildIds /\ calls[i].args[2] \in RootIds
    /\ calls[i].args[2] \notin Range(calls[i].entries_before[calls[i].args[1]])
    /\ calls[i].failAt = 0

(* C4: when a call for an existing build and root has attached the root    *)
(* and the next call has the same (build, root), the two calls issue       *)
(* exactly one POST in total, none of them in the second call, and the     *)
(* second call returns success when none of its lookups fails in transport *)
C4_SecondAssignIsNoOp ==
    \A i \in 1..(Len(calls) - 1) :
        (Attached(i) /\ calls[i + 1].fn = "assign" /\ calls[i + 1].args = calls[i].args) =>
            /\ calls[i].ok
            /\ Cardinality(Posts(calls[i].reqs)) = 1
            /\ Posts(calls[i + 1].reqs) = {}
            /\ Cardinality(Posts(calls[i].reqs \o calls[i + 1].reqs)) = 1
            /\ calls[i + 1].failAt = 0 => calls[i + 1].ok

C4_Witness ==
    \E i \in 1..(Len(calls) - 1) :
        /\ Attached(i)
        /\ calls[i + 1].args = calls[i].args
        /\ calls[i + 1].failAt = 0
        /\ calls[i + 1].ok
        /\ Len(calls[i + 1].reqs) = 3
        /\ Cardinality(Posts(log)) = 1

(* The lookup of the build, or of the root, of a call answered 404 *)
BuildLookup404(c) == c.args[1] \notin BuildIds /\ c.failAt # 1
RootLookup404(c) ==
    c.args[1] \in BuildIds /\ c.failAt \notin {1, 2} /\ c.args[2] \notin RootIds

(* C5: a call whose build lookup or root lookup answers 404 returns        *)
(* failure, issues no POST and leaves the server's attachments unchanged.  *)
C5_NotFoundFailsWithoutPost ==
    calls # <<>> =>
        LET c == calls[Len(calls)]
        IN  (c.fn = "assign" /\ (BuildLookup404(c) \/ RootLookup404(c))) =>
                /\ ~c.ok
                /\ Posts(c.reqs) = {}
                /\ Puts(c.reqs) = {}
                /\ entries = c.entries_before

C5_Witness ==
    /\ Len(calls) = 2
    /\ BuildLookup404(calls[1]) /\ ~calls[1].ok
    /\ RootLookup404(calls[2]) /\ ~calls[2].ok /\ Len(calls[2].reqs) = 2
    /\ entries = calls[1].entries_before

----------------------------------------------------------------------------
(* Claims about update_vcs_root_properties *)

LastCall == calls[Len(calls)]
PutBody(c) == c.reqs[CHOOSE i \in Puts(c.reqs) : TRUE].body
HasName(property_list, name) ==
    \E i \in 1..Len(property_list) : property_list[i].name = name

(* C7: the list a call PUTs holds every property of the list it fetched,   *)
(* in the same order; the value of an entry changes only for url/branch    *)
(* with a supplied value, which replaces it; a supplied url/branch is      *)
(* appended (url first) only when the fetched list has no such entry.      *)
C7_PutKeepsEveryProperty ==
    (calls # <<>> /\ LastCall.fn = "update" /\ Puts(LastCall.reqs) # {}) =>
        LET fetched == LastCall.props_before[LastCall.args[1]]
            fetch_url == LastCall.args[2]
            default_branch == LastCall.args[3]
            sent == PutBody(LastCall)
            n == Len(fetched)
        IN  /\ Len(sent) >= n
            /\ \A i \in 1..n :
                  /\ sent[i].name = fetched[i].name
                  /\ sent[i].value =
                        IF fetched[i].name = "url" /\ fetch_url # None THEN fetch_url
                        ELSE IF fetched[i].name = "branch" /\ default_branch # None
                        THEN default_branch
                        ELSE fetched[i].value
            /\ SubSeq(sent, n + 1, Len(sent)) =
                  (IF fetch_url # None /\ ~HasName(fetched, "url")
                   THEN <<[name |-> "url", value |-> fetch_url]>> ELSE <<>>)
                  \o (IF default_branch # None /\ ~HasName(fetched, "branch")
                      THEN <<[name |-> "branch", value |-> default_branch]>> ELSE <<>>)
            /\ LastCall.ok => props = [LastCall.props_before EXCEPT ![LastCall.args[1]] = sent]

C7_Witness ==
    /\ calls # <<>> /\ LastCall.fn = "update" /\ Puts(LastCall.reqs) # {}
    /\ LastCall.ok
    /\ LET fetched == LastCall.props_before[LastCall.args[1]]
       IN  /\ Len(fetched) = 2
           /\ fetched[1] = [name |-> "user", value |-> "old"]
           /\ fetched[2] = [name |-> "url", value |-> "old"]
           /\ LastCall.args[2] = "new" /\ LastCall.args[3] = "new"
           /\ Len(PutBody(LastCall)) = 3

(* C8: a call with fetch_url and default_branch both None issues no        *)
(* request and returns success, whether or not the root id exists.         *)
C8_BothUnsetIsNoOp ==
    (calls # <<>> /\ LastCall.fn = "update"
        /\ LastCall.args[2] = None /\ LastCall.args[3] = None) =>
            /\ LastCall.reqs = <<>>
            /\ log = <<>>
            /\ LastCall.ok
            /\ props = LastCall.props_before

C8_Witness ==
    /\ calls # <<>> /\ LastCall.fn = "update"
    /\ LastCall.args = <<"VX", None, None>>
    /\ LastCall.ok /\ log = <<>>

----------------------------------------------------------------------------
(* CSV input.  A file is [exists, header_ok, rows]; a row holds the cells  *)
(* of the columns read, None where the line is too short for the column.   *)

(* any(row.values()) *)
AnyValue(row) ==
    Truthy(row.id) \/ Truthy(row.root) \/ Truthy(row.url) \/ Truthy(row.branch)

KeptRows(file) ==
    IF ~file.exists \/ ~file.header_ok THEN <<>>
    ELSE SelectSeq(file.rows, LAMBDA row : AnyValue(row) /\ Truthy(row.id) /\ Truthy(row.root))

read_projects_csv(file) ==
    LET kept == KeptRows(file)
    IN  [i \in 1..Len(kept) |->
            [project_id |-> kept[i].id, vcs_root_id |-> kept[i].root,
             fetch_url |-> kept[i].url, default_branch |-> kept[i].branch]]

read_builds_csv(file) ==
    LET kept == KeptRows(file)
    IN  [i \in 1..Len(kept) |-> [build_id |-> kept[i].id, vcs_root_id |-> kept[i].root]]

(* Update runs *)
CountSuccess(count, ok) == IF ok THEN count + 1 ELSE count

CountFailure_Dropped(count, ok) == count

CountFailure(count, ok) == IF ok THEN count ELSE count + 1

(* update_*_from_csv: the file is read; without rows (0, 0) is returned    *)
(* and main prints the tally                                               *)
UpdateBegin ==
    /\ pc = "update"
    /\ LET rows == IF args.mode = "update_projects"
                   THEN read_projects_csv(csv) ELSE read_builds_csv(csv)
       IN  /\ data' = rows
           /\ IF rows = <<>>
              THEN pc' = "exit" /\ exit_code' = 0 /\ UNCHANGED idx
              ELSE pc' = "update_loop" /\ idx' = 1 /\ UNCHANGED exit_code
    /\ success_count' = 0
    /\ failure_count' = 0
    /\ UNCHANGED <<token, args, csv, entries, props, fault, all_projects,
                   details, output, log, calls>>

(* update_projects_from_csv: one turn of the loop *)
UpdateProjectRow ==
    /\ pc = "update_loop"
    /\ args.mode = "update_projects"
    /\ idx <= Len(data)
    /\ LET project == data[idx]
       IN  IF project.vcs_root_id = "None"
           THEN UNCHANGED <<entries, props, log, calls, success_count, failure_count>>
           ELSE \E f \in 0..2 :
                  LET o == update_vcs_root_properties(project.vcs_root_id,
                              project.fetch_url, project.default_branch, f, entries, props)
                  IN  /\ f <= Len(o.reqs)
                      /\ entries' = o.entries
                      /\ props' = o.props
                      /\ log' = log \o o.reqs
                      /\ calls' = Append(calls, CallRecord("update",
                                    <<project.vcs_root_id, project.fetch_url,
                                      project.default_branch>>, f, o))
                      /\ success_count' = CountSuccess(success_count, o.ok)
                      /\ failure_count' = CountFailure(failure_count, o.ok)
    /\ idx' = idx + 1
    /\ UNCHANGED <<token, args, csv, fault, pc, all_projects, details, output,
                   data, exit_code>>

(* update_builds_from_csv: one turn of the loop *)
UpdateBuildRow ==
    /\ pc = "update_loop"
    /\ args.mode = "update_builds"
    /\ idx <= Len(data)
    /\ LET build == data[idx]
       IN  IF build.vcs_root_id = "None"
           THEN UNCHANGED <<entries, props, log, calls, success_count, failure_count>>
           ELSE \E f \in 0..4 :
                  LET o == assign_vcs_root_to_build(build.build_id, build.vcs_root_id,
                              f, entries, props)
                  IN  /\ f <= Len(o.reqs)
                      /\ entries' = o.entries
                      /\ props' = o.props
                      /\ log' = log \o o.reqs
                      /\ calls' = Append(calls, CallRecord("assign",
                                    <<build.build_id, build.vcs_root_id>>, f, o))
                      /\ success_count' = CountSuccess(success_count, o.ok)
                      /\ failure_count' = CountFailure(failure_count, o.ok)
    /\ idx' = idx + 1
    /\ UNCHANGED <<token, args, csv, fault, pc, all_projects, details, output,
                   data, exit_code>>

(* The loop is over: the counts are returned, main prints them and ends *)
UpdateEnd ==
    /\ pc = "update_loop"
    /\ idx > Len(data)
    /\ pc' = "exit"
    /\ exit_code' = 0
    /\ UNCHANGED <<token, args, csv, entries, props, fault, all_projects, idx,
                   details, output, data, success_count, failure_count, log, calls>>

----------------------------------------------------------------------------
(* Whole runs: any environment, command line and input file *)

Modes == {"builds", "projects", "update_projects", "update_builds"}

BuildCsvRows ==
    [id : {"", "B1", "BX"}, root : {"", "None", "V1", "VX"}, url : {None}, branch : {None}]

ProjectCsvCells == {<<None, None>>, <<"", "">>, <<"new", None>>, <<None, "new">>}

ProjectCsvRows ==
    {[id |-> k[1], root |-> k[2], url |-> c[1], branch |-> c[2]] :
        k \in {<<"P1", "V1">>, <<"P1", "VX">>, <<"P1", "None">>, <<"", "V1">>},
        c \in ProjectCsvCells}

CsvFiles(rowset) ==
    {NoCsv} \cup [exists : {TRUE}, header_ok : BOOLEAN, rows : SeqsUpTo(rowset, MaxRows)]

Init ==
    /\ token \in BOOLEAN
    /\ args \in [mode : Modes, input_file : {None, "", "in.csv"}]
    /\ csv \in IF token /\ args.input_file = "in.csv" /\ args.mode = "update_builds"
               THEN CsvFiles(BuildCsvRows)
               ELSE IF token /\ args.input_file = "in.csv" /\ args.mode = "update_projects"
               THEN CsvFiles(ProjectCsvRows)
               ELSE {NoCsv}
    /\ entries \in [BuildIds -> {<<>>, <<"V2">>}]
    /\ props = ExportProps
    /\ fault = {}
    /\ pc = "start"
    /\ all_projects = <<>>
    /\ idx = 0
    /\ details = {}
    /\ output = <<>>
    /\ data = <<>>
    /\ success_count = 0
    /\ failure_count = 0
    /\ exit_code = -1
    /\ log = <<>>
    /\ calls = <<>>

Next ==
    \/ Startup
    \/ ParseArgs
    \/ ExportBegin
    \/ ExportProject
    \/ ExportWrite
    \/ UpdateBegin
    \/ UpdateProjectRow
    \/ UpdateBuildRow
    \/ UpdateEnd

Spec == Init /\ [][Next]_vars

(* Runs and direct calls of the mutators together *)
InitMutate == Init \/ InitAssign \/ InitProps
NextMutate == Next \/ NextAssign \/ NextProps
SpecMutate == InitMutate /\ [][NextMutate]_vars

----------------------------------------------------------------------------
(* Claims about runs *)

(* C6: no step of a run or of a sequence of assign calls detaches or       *)
(* replaces an attachment: every build keeps the entries it had, in order, *)
(* and only gains entries at the end.                                      *)
C6_AttachmentsOnlyGrow ==
    [][\A b \in BuildIds :
          /\ Range(entries[b]) \subseteq Range(entries'[b])
          /\ Len(entries[b]) <= Len(entries'[b])
          /\ SubSeq(entries'[b], 1, Len(entries[b])) = entries[b]]_vars

C6_Witness ==
    /\ \E b \in BuildIds : entries[b] = <<"V2", "V1">>
    /\ Cardinality(Posts(log)) = 1
    /\ pc = "exit" /\ args.mode = "update_builds"

(* C9: a run without the token, or in an update mode without --input-file, *)
(* never issues a request and never gets past the argument check; when it  *)
(* has exited its status is nonzero.                                       *)
UsageError == UpdateMode /\ ~Truthy(args.input_file)

C9_FatalBeforeAnyRequest ==
    (~token \/ UsageError) =>
        /\ log = <<>>
        /\ calls = <<>>
        /\ pc \in {"start", "main", "exit"}
        /\ ~token => pc \in {"start", "exit"}
        /\ pc = "exit" => exit_code = 1

C9_Witness ==
    /\ token /\ UsageError
    /\ pc = "exit" /\ exit_code = 1
    /\ log = <<>>

(* C10: in an update run every kept row whose VCS Root ID is not "None"    *)
(* is handed to the mutator once, in file order, whatever the calls        *)
(* before it returned; each call counts as one success or one failure;     *)
(* at the end the two counts add up to the number of such rows.            *)
RowsToProcess(upto) ==
    SelectSeq(SubSeq(KeptRows(csv), 1, upto), LAMBDA row : row.root # "None")

CallArgsOf(row) ==
    IF args.mode = "update_projects" THEN <<row.root, row.url, row.branch>>
    ELSE <<row.id, row.root>>

Failures == {i \in 1..Len(calls) : ~calls[i].ok}

C10_EveryRowProcessedAndCounted ==
    (UpdateMode /\ pc \in {"update_loop", "exit"} /\ token /\ ~UsageError) =>
        LET done == IF pc = "exit" THEN Len(KeptRows(csv)) ELSE idx - 1
            todo == RowsToProcess(done)
        IN  /\ Len(calls) = Len(todo)
            /\ \A i \in 1..Len(todo) : calls[i].args = CallArgsOf(todo[i])
            /\ failure_count = Cardinality(Failures)
            /\ success_count = Len(calls) - Cardinality(Failures)
            /\ success_count + failure_count = Len(todo)
            /\ pc = "exit" => exit_code = 0

C10_Witness ==
    /\ UpdateMode /\ pc = "exit"
    /\ Len(calls) = 2
    /\ ~calls[1].ok /\ calls[1].failAt = 0 /\ calls[1].args[1] = "VX"
    /\ calls[2].ok
    /\ failure_count = 1 /\ success_count = 1

(* C11: in update-projects mode a row that names an existing VCS root and  *)
(* leaves the Fetch URL and Default Branch cells empty is a no-op: its     *)
(* call issues no PUT, the root's property list stays as it was and the    *)
(* row counts as a success (the call's requests being answered).           *)
EmptyCell(v) == v = None \/ v = ""

C11_EmptyCellsRowIsNoOp ==
    (args.mode = "update_projects" /\ pc \in {"update_loop", "exit"} /\ calls # <<>>
        /\ LastCall.args[1] \in RootIds
        /\ EmptyCell(LastCall.args[2]) /\ EmptyCell(LastCall.args[3])
        /\ LastCall.failAt = 0) =>
            /\ Puts(LastCall.reqs) = {}
            /\ props = LastCall.props_before
            /\ LastCall.ok
            /\ success_count + failure_count = Len(calls)
            /\ failure_count = Cardinality(Failures)

----------------------------------------------------------------------------
(* Round trip of the builds view: the CSV an export wrote is the input     *)
(* file of a following --update-builds run against the same server.        *)

(* The exported file as csv.DictReader reads it: the header written has    *)
(* the required columns; Build ID is the first cell of a row and VCS Root  *)
(* ID the third.                                                           *)
ExportedBuildsFile(written) ==
    [exists |-> TRUE, header_ok |-> TRUE,
     rows |-> [i \in 1..Len(written) |->
                 [id |-> written[i][1], root |-> written[i][3],
                  url |-> None, branch |-> None]]]

(* The export has ended; the next process is started on its output *)
FeedBack ==
    /\ pc = "exit"
    /\ exit_code = 0
    /\ args.mode = "builds"
    /\ csv' = ExportedBuildsFile(output)
    /\ args' = [mode |-> "update_builds", input_file |-> "in.csv"]
    /\ pc' = "start"
    /\ exit_code' = -1
    /\ fault' = {}
    /\ all_projects' = <<>>
    /\ idx' = 0
    /\ details' = {}
    /\ output' = <<>>
    /\ data' = <<>>
    /\ log' = <<>>
    /\ calls' = <<>>
    /\ UNCHANGED <<token, entries, props, success_count, failure_count>>

InitRoundTrip ==
    /\ token = TRUE
    /\ args = [mode |-> "builds", input_file |-> None]
    /\ csv = NoCsv
    /\ entries \in [BuildIds -> SeqsUpTo(RootIds \cup {None}, MaxEntries)]
    /\ props = ExportProps
    /\ fault \in {f \in SUBSET GetUrls : Cardinality(f) <= 1}
    /\ pc = "start"
    /\ all_projects = <<>>
    /\ idx = 0
    /\ details = {}
    /\ output = <<>>
    /\ data = <<>>
    /\ success_count = 0
    /\ failure_count = 0
    /\ exit_code = -1
    /\ log = <<>>
    /\ calls = <<>>

NextRoundTrip ==
    \/ Startup
    \/ ParseArgs
    \/ ExportBegin
    \/ ExportProject
    \/ ExportWrite
    \/ FeedBack
    \/ UpdateBegin
    \/ UpdateBuildRow
    \/ UpdateEnd

SpecRoundTrip == InitRoundTrip /\ [][NextRoundTrip]_vars

(* C12: when the rows of a builds export are the input of an update-builds *)
(* run on the unchanged server, the run issues no POST and leaves every    *)
(* attachment as it was; a sentinel row (VCS Root ID "None") leads to no   *)
(* call and no request and is counted neither way; when every lookup is    *)
(* answered, each other row is one successful call of three GETs and the   *)
(* failure count is 0.                                                     *)
NonSentinelRows == SelectSeq(csv.rows, LAMBDA row : row.root # "None")
NoLookupFails == \A i \in 1..Len(calls) : calls[i].failAt = 0

C12_RoundTripChangesNothing ==
    (args.mode = "update_builds" /\ pc \in {"update_loop", "exit"}) =>
        /\ Posts(log) = {}
        /\ Puts(log) = {}
        /\ \A i \in 1..Len(calls) :
              /\ calls[i].entries_before = entries
              /\ calls[i].args[2] # "None"
        /\ \A i \in 1..Len(log) : log[i].url[2] # "None"
        /\ success_count + failure_count = Len(calls)
        /\ NoLookupFails =>
              /\ failure_count = 0
              /\ success_count = Len(calls)
              /\ Len(log) = 3 * Len(calls)
        /\ pc = "exit" =>
              /\ Len(calls) = Len(NonSentinelRows)
              /\ \A i \in 1..Len(calls) :
                    calls[i].args = <<NonSentinelRows[i].id, NonSentinelRows[i].root>>
              /\ exit_code = 0

C12_Witness ==
    /\ args.mode = "update_builds" /\ pc = "exit"
    /\ \E i \in 1..Len(csv.rows) : csv.rows[i].root = "None"
    /\ Len(csv.rows) = 3
    /\ Len(calls) = 2
    /\ NoLookupFails
    /\ success_count = 2 /\ failure_count = 0
    /\ Len(log) = 6

====
